---- MODULE Spec2Model ----
(***************************************************************************)
(* BookBazaar marketplace: the record store (MemStorage) and the REST      *)
(* handlers over it (server/routes.ts), with the checkout sequence         *)
(* POST /api/orders split at its store calls.  One step of a handler is    *)
(* one store call together with the handler's local code that follows it   *)
(* up to the next store call; steps of different requests interleave.      *)
(* The store's methods are also called directly, on the MemStorage alone   *)
(* and on the MemStorage beside a DatabaseStorage over its database.       *)
(***************************************************************************)
EXTENDS Integers, Sequences, FiniteSets, TLC

\* ------------------------------------------------------------------ bounds
\* Highest id each MemStorage counter may hand out in the model.
MaxBookId == 1
MaxCartItemId == 2
\* Number of POST /api/orders requests of a behaviour (one at a time under
\* Spec, in flight together under SpecConc).  Each creates at most one order
\* and at most one order item per cart entry it read, which bounds the order
\* and order item counters.
NumReqs == 2
\* Highest listing id in the behaviours that call the store's methods
\* directly; there two listings exist side by side.
MaxListings == 2
\* Number of POST /api/auth/register requests of a behaviour, in flight
\* together; each creates at most one user, which bounds the user counter.
NumRegs == 3
\* Highest id the message counter may hand out.
MaxMessageId == 2

\* ------------------------------------------------------------ input domains
\* Authenticated callers (the JWT payload's userId) and their roles.
Users == {1, 2, 3}
Role == [u \in Users |-> IF u = 3 THEN "seller" ELSE "buyer"]
\* Callers that use the cart and order routes in the model.  The routes do
\* not look at the role; the two buyers are the inputs drawn here.
Buyers == {u \in Users : Role[u] = "buyer"}
BookIds == 1..MaxBookId
Prices == {10, 20}
\* The `total` of a POST /api/orders body: absent (<<>>) or a number.
Totals == {<<>>, <<7>>}
ListingIds == 1..MaxListings
Reqs == 1..NumReqs
Regs == 1..NumRegs

\* Texts are sequences of characters.
Lower == [c \in {"D", "d", "U", "u", "S", "s", "F", "f"} |->
            CASE c = "D" -> "d" [] c = "U" -> "u" [] c = "S" -> "s"
              [] c = "F" -> "f" [] OTHER -> c]
toLowerCase(s) == [i \in 1..Len(s) |-> Lower[s[i]]]
includes(hay, needle) ==
    \E i \in 0..(Len(hay) - Len(needle)) :
        SubSeq(hay, i + 1, i + Len(needle)) = needle

\* Number.prototype.toString for a natural number: its decimal digits.
RECURSIVE toString(_)
toString(n) ==
    IF n < 10 THEN <<n>> ELSE Append(toString(n \div 10), n % 10)

\* insertBookSchema: the columns of books without id, createdAt and sellerId.
\* Parsing an object with it (or with its partial()) strips every other key.
BookFields ==
    {"title", "author", "description", "price", "condition", "category",
     "imageUrl", "isAvailable"}
insertBookSchema(body) == [f \in DOMAIN body \cap BookFields |-> body[f]]

\* The fields of a listing that the caller of POST /api/books supplies.
SuppliedFields == {"title", "author", "description", "price", "condition", "category"}

\* Bodies of POST /api/books that insertBookSchema.parse accepts.
BookInputs ==
    { [title |-> <<"D", "u">>, author |-> <<"F">>, description |-> <<"s", "f">>,
       price |-> 10, condition |-> "good", category |-> "fiction"],
      [title |-> <<"S", "u">>, author |-> <<"d">>, description |-> <<"U">>,
       price |-> 20, condition |-> "like_new", category |-> "science",
       isAvailable |-> FALSE],
      [title |-> <<"D", "u">>, author |-> <<"F">>, description |-> <<"s", "f">>,
       price |-> 10, condition |-> "good", category |-> "fiction",
       sellerId |-> 1, id |-> 1] }
\* Bodies of PUT /api/books/:id that insertBookSchema.partial().parse accepts.
Patches ==
    { [price |-> p] : p \in Prices }
      \cup { [isAvailable |-> b] : b \in BOOLEAN }
      \cup { [price |-> 20, isAvailable |-> TRUE] }
      \cup { [isAvailable |-> TRUE, sellerId |-> 1] }
\* insertUserSchema: the columns of users without id and createdAt, all of
\* them required.
UserFields == {"email", "password", "name", "role"}
insertUserSchema(body) == [f \in DOMAIN body \cap UserFields |-> body[f]]
Emails == {<<"d">>, <<"u">>}
\* Bodies of POST /api/auth/register; the last lacks the password.
RegisterInputs ==
    [email : Emails, password : {<<"s">>}, name : {<<"F">>},
     role : {"buyer", "seller"}]
      \cup { [email |-> <<"d">>, name |-> <<"F">>, role |-> "buyer"] }
JWT_SECRET == "your-secret-key"
\* bcrypt.hash: the text stored is not the password.
bcryptHash(password) == <<"$">> \o password
\* jwt.sign(payload, secret, { expiresIn: '24h' })
jwtSign(payload, secret) == [payload |-> payload, key |-> secret, expired |-> FALSE]

\* jwt.verify(token, secret): the signature is the secret's and the token has
\* not expired.
jwtVerify(token, secret) == token.key = secret /\ ~token.expired
\* The tokens a request may carry: each user's, signed with the secret; one
\* signed with another key that names the seller; one of a buyer, signed with
\* the secret but expired.
Payload(u) == [userId |-> u, role |-> Role[u]]
Tokens ==
    {jwtSign(Payload(u), JWT_SECRET) : u \in Users}
      \cup {jwtSign(Payload(3), "forged")}
      \cup {[jwtSign(Payload(1), JWT_SECRET) EXCEPT !.expired = TRUE]}
\* The authorization header split at its spaces: absent, a scheme alone, or a
\* scheme and a token.
Headers == {<<>>, <<"Bearer">>} \cup {<<"Bearer", token>> : token \in Tokens}
\* The headers that do not carry a valid token of a user outside callers.
HeadersOf(callers) ==
    {h \in Headers :
        (Len(h) = 2 /\ jwtVerify(h[2], JWT_SECRET)) => h[2].payload.userId \in callers}

\* insertMessageSchema: the columns of messages without id and createdAt;
\* bookId is optional.
MessageFields == {"senderId", "receiverId", "bookId", "content"}
insertMessageSchema(body) == [f \in DOMAIN body \cap MessageFields |-> body[f]]
\* Bodies of POST /api/messages: to each user, one that names another sender,
\* and one without receiver.
MessageInputs ==
    {[receiverId |-> u, content |-> <<"s">>] : u \in Users}
      \cup { [receiverId |-> 3, content |-> <<"f">>, senderId |-> 2],
             [content |-> <<"s">>] }
\* The times the wall clock shows.
Times == {1, 2}

\* Query strings of GET /api/books; "" and <<>> are the absent (falsy) values.
Filters ==
    [category : {"", "fiction"}, condition : {"", "good"},
     search : {<<>>, <<"D">>, <<"u">>}]

\* -------------------------------------------------------------------- state
VARIABLES
    users,              \* MemStorage.users: id -> User
    books,              \* MemStorage.books: id -> Book
    orders,             \* MemStorage.orders: id -> Order
    orderItems,         \* MemStorage.orderItems: id -> OrderItem
    messages,           \* MemStorage.messages: id -> Message
    cartItems,          \* MemStorage.cartItems: id -> CartItem
    currentUserId,
    currentBookId,
    currentOrderId,
    currentOrderItemId,
    currentMessageId,
    currentCartItemId,
    clock,              \* the wall clock that new Date() reads
    reqs,               \* the POST /api/orders requests in flight
    regs,               \* the POST /api/auth/register requests in flight
    http,               \* the response a one-step route is sending, if observed
    lineOrigin,         \* history: order item id -> what it was created from
    relisted,           \* history: sold listings whose owner set isAvailable
                        \* to true after the last checkout update of them
    db,                 \* the database behind a DatabaseStorage that receives
                        \* the same calls as the MemStorage, if there is one
    returned            \* what the last call returned from each of the two

store == <<users, books, orders, orderItems, messages, cartItems, currentUserId,
           currentBookId, currentOrderId, currentOrderItemId, currentMessageId,
           currentCartItemId>>
vars == <<users, books, orders, orderItems, messages, cartItems, currentUserId,
          currentBookId, currentOrderId, currentOrderItemId, currentMessageId,
          currentCartItemId, clock, reqs, regs, http, lineOrigin, relisted,
          db, returned>>
\* What the listing, cart and checkout routes neither read nor write.
rest == <<users, messages, currentUserId, currentMessageId, clock, regs,
          db, returned>>

\* ------------------------------------------------------------------ helpers
Min(S) == CHOOSE x \in S : \A y \in S : x <= y
\* Array.from(map.values()): the values in insertion order, which is id order.
RECURSIVE ValuesFrom(_, _)
ValuesFrom(map, ids) ==
    IF ids = {} THEN <<>>
    ELSE LET m == Min(ids) IN <<map[m]>> \o ValuesFrom(map, ids \ {m})
Values(map) == ValuesFrom(map, DOMAIN map)
Range(s) == {s[i] : i \in DOMAIN s}
\* { ...a, ...b }
Spread(a, b) ==
    [f \in DOMAIN a \cup DOMAIN b |-> IF f \in DOMAIN b THEN b[f] ELSE a[f]]
Without(map, ids) == [k \in DOMAIN map \ ids |-> map[k]]

IdleReq ==
    [pc |-> "idle", userId |-> 0, total |-> <<>>, cartItems |-> <<>>, idx |-> 0,
     orderId |-> 0, book |-> <<>>, resp |-> "",
     \* history: the cart entries whose listing the lookup found, those whose
     \* listing it did not find, and the store's price at the last lookup
     found |-> {}, vanished |-> {}, lookedUp |-> 0]

\* A registration request before it arrives.
IdleReg ==
    [pc |-> "idle", userData |-> <<>>, hashedPassword |-> <<>>, resp |-> "",
     user |-> <<>>, token |-> <<>>,
     \* history: the user getUserByEmail returned when the request looked
     existingUser |-> <<>>]

\* The response of a one-step route: res.status(status).json(body) to the
\* request of userId (0 before the gate set req.user) with the id its path or
\* body names.
Response(route, status, userId, param, body) ==
    [route |-> route, status |-> status, userId |-> userId, param |-> param,
     body |-> body]
NoResponse == Response("", 0, 0, 0, <<>>)
Unobserved == Response("unobserved", 0, 0, 0, <<>>)
\* The value of http after a response: recorded where responses are observed.
Reply(response) == IF http = Unobserved THEN http ELSE response

\* The database of a DatabaseStorage: the rows of books and cart_items by id
\* and the next values of their id sequences.  NoDatabase: the MemStorage
\* runs alone.
EmptyDatabase ==
    [books |-> <<>>, cartItems |-> <<>>, booksIdSeq |-> 1, cartItemsIdSeq |-> 1]
NoDatabase ==
    [books |-> <<>>, cartItems |-> <<>>, booksIdSeq |-> 0, cartItemsIdSeq |-> 0]
\* What a call returned: a value (a record, a boolean or an array), undefined,
\* or a rejection (the promise of a failed statement).
Boolean(b) == [boolean |-> b]
Array(list) == [array |-> list]
Returns(value) == [threw |-> FALSE, value |-> <<value>>]
Undefined == [threw |-> FALSE, value |-> <<>>]
Throws == [threw |-> TRUE, value |-> <<>>]
NoCall == [mem |-> Undefined, db |-> Undefined]

\* ------------------------------------------------- MemStorage (the store)
\* Array.prototype.find: the first match, as a sequence of at most one.
getUserByEmail(email) ==
    LET found == SelectSeq(Values(users), LAMBDA user : user.email = email)
    IN  IF found # <<>> THEN <<found[1]>> ELSE <<>>

createUser(insertUser) ==
    users @@ (currentUserId :>
        Spread(insertUser, [id |-> currentUserId, createdAt |-> clock]))

getBook(id) == IF id \in DOMAIN books THEN <<books[id]>> ELSE <<>>

getBooks(filters) ==
    LET available == SelectSeq(Values(books), LAMBDA book : book.isAvailable)
        byCategory ==
            IF filters.category # ""
            THEN SelectSeq(available, LAMBDA book : book.category = filters.category)
            ELSE available
        byCondition ==
            IF filters.condition # ""
            THEN SelectSeq(byCategory, LAMBDA book : book.condition = filters.condition)
            ELSE byCategory
        searchTerm == toLowerCase(filters.search)
    IN  IF filters.search # <<>>
        THEN SelectSeq(byCondition, LAMBDA book :
                 \/ includes(toLowerCase(book.title), searchTerm)
                 \/ includes(toLowerCase(book.author), searchTerm)
                 \/ includes(toLowerCase(book.description), searchTerm))
        ELSE byCondition

\* createBook that stores isAvailable as given and defaults it to true.
createBookAsGiven(insertBook, sellerId) ==
    books @@ (currentBookId :>
        Spread([isAvailable |-> TRUE],
               Spread(insertBook, [id |-> currentBookId, sellerId |-> sellerId])))

\* The new books map; the caller advances currentBookId.
createBook(insertBook, sellerId) ==
    books @@ (currentBookId :>
        Spread(insertBook, [id |-> currentBookId, sellerId |-> sellerId,
                            isAvailable |-> TRUE]))

\* updateBook with the spread the wrong way round: the stored fields win.
updateBookKeepsStored(id, updateData) ==
    IF id \notin DOMAIN books THEN books
    ELSE [books EXCEPT ![id] = Spread(updateData, books[id])]

\* updateBook that stores the given fields under an id that has no record.
updateBookUpserts(id, updateData) ==
    IF id \notin DOMAIN books THEN books @@ (id :> updateData)
    ELSE [books EXCEPT ![id] = Spread(books[id], updateData)]

updateBook(id, updateData) ==
    IF id \notin DOMAIN books THEN books
    ELSE [books EXCEPT ![id] = Spread(books[id], updateData)]

deleteBook(id) == Without(books, {id})

createOrder(insertOrder) ==
    orders @@ (currentOrderId :> Spread(insertOrder, [id |-> currentOrderId]))

getBooksBySeller(sellerId) ==
    SelectSeq(Values(books), LAMBDA book : book.sellerId = sellerId)

getOrdersByBuyer(buyerId) ==
    SelectSeq(Values(orders), LAMBDA order : order.buyerId = buyerId)

getOrderItems(orderId) ==
    SelectSeq(Values(orderItems), LAMBDA item : item.orderId = orderId)

createOrderItem(insertOrderItem) ==
    orderItems @@ (currentOrderItemId :>
        Spread(insertOrderItem, [id |-> currentOrderItemId]))

\* Array.prototype.sort with the comparator a.createdAt - b.createdAt: a
\* stable sort, here by insertion from the left.
RECURSIVE InsertByCreatedAt(_, _)
InsertByCreatedAt(sorted, message) ==
    IF sorted = <<>> THEN <<message>>
    ELSE IF sorted[Len(sorted)].createdAt <= message.createdAt
    THEN Append(sorted, message)
    ELSE Append(InsertByCreatedAt(SubSeq(sorted, 1, Len(sorted) - 1), message),
                sorted[Len(sorted)])
RECURSIVE SortByCreatedAt(_)
SortByCreatedAt(list) ==
    IF list = <<>> THEN <<>>
    ELSE InsertByCreatedAt(SortByCreatedAt(SubSeq(list, 1, Len(list) - 1)),
                           list[Len(list)])

\* getMessagesBetweenUsers that keeps only what user1 sent to user2.
getMessagesSentTo(user1Id, user2Id) ==
    SortByCreatedAt(SelectSeq(Values(messages), LAMBDA message :
        message.senderId = user1Id /\ message.receiverId = user2Id))

getMessagesBetweenUsers(user1Id, user2Id) ==
    SortByCreatedAt(SelectSeq(Values(messages), LAMBDA message :
        \/ message.senderId = user1Id /\ message.receiverId = user2Id
        \/ message.senderId = user2Id /\ message.receiverId = user1Id))

createMessage(insertMessage) ==
    messages @@ (currentMessageId :>
        Spread(insertMessage, [id |-> currentMessageId, createdAt |-> clock]))

\* getCartItems without its filter on the buyer.
getCartItemsOfAll(buyerId) == Values(cartItems)

getCartItems(buyerId) ==
    SelectSeq(Values(cartItems), LAMBDA item : item.buyerId = buyerId)

\* addToCart that takes the id from the number of entries in the map.
addToCartBySize(insertCartItem) ==
    LET id == Cardinality(DOMAIN cartItems) + 1
    IN  [k \in DOMAIN cartItems \cup {id} |->
            IF k = id THEN Spread(insertCartItem, [id |-> id]) ELSE cartItems[k]]

addToCart(insertCartItem) ==
    cartItems @@ (currentCartItemId :>
        Spread(insertCartItem, [id |-> currentCartItemId]))

removeFromCart(buyerId, bookId) ==
    LET found == SelectSeq(Values(cartItems),
                     LAMBDA item : item.buyerId = buyerId /\ item.bookId = bookId)
    IN  IF found # <<>> THEN Without(cartItems, {found[1].id}) ELSE cartItems

\* clearCart that deletes one entry of the buyer, as removeFromCart does.
clearCartFirstOnly(buyerId) ==
    LET items == SelectSeq(Values(cartItems), LAMBDA item : item.buyerId = buyerId)
    IN  IF items # <<>> THEN Without(cartItems, {items[1].id}) ELSE cartItems

\* clearCart without its filter on the buyer.
clearCartOfAll(buyerId) == Without(cartItems, DOMAIN cartItems)

clearCart(buyerId) ==
    LET items == SelectSeq(Values(cartItems), LAMBDA item : item.buyerId = buyerId)
    IN  Without(cartItems, {item.id : item \in Range(items)})

\* ------------------------------------ DatabaseStorage (over the database)
\* Each method is one statement.  It is given here by the database it leaves
\* and the value it returns.  The rows of users that the foreign keys name are
\* taken to exist; the foreign keys on books.id are enforced by the database.
Rows(table) == {table[id] : id \in DOMAIN table}
\* A select without ORDER BY: the rows in an order the database chooses.
Orderings(rows) == {s \in [1..Cardinality(rows) -> rows] : Range(s) = rows}

\* The results getBooks may return, one for each order of the select.
dbGetBooks(filters) ==
    LET Filtered(allBooks) ==
            LET byCategory ==
                    IF filters.category # ""
                    THEN SelectSeq(allBooks, LAMBDA book : book.category = filters.category)
                    ELSE allBooks
                byCondition ==
                    IF filters.condition # ""
                    THEN SelectSeq(byCategory, LAMBDA book : book.condition = filters.condition)
                    ELSE byCategory
                searchTerm == toLowerCase(filters.search)
            IN  IF filters.search # <<>>
                THEN SelectSeq(byCondition, LAMBDA book :
                         \/ includes(toLowerCase(book.title), searchTerm)
                         \/ includes(toLowerCase(book.author), searchTerm)
                         \/ includes(toLowerCase(book.description), searchTerm))
                ELSE byCondition
    IN  {Filtered(allBooks) :
            allBooks \in Orderings({book \in Rows(db.books) : book.isAvailable})}

\* insert into books: id from the sequence, is_available true by default.
dbCreateBook(insertBook, sellerId) ==
    LET book == Spread([id |-> db.booksIdSeq, isAvailable |-> TRUE],
                       Spread(insertBook, [sellerId |-> sellerId]))
    IN  [db |-> [db EXCEPT !.books = @ @@ (book.id :> book), !.booksIdSeq = @ + 1],
         result |-> Returns(book)]

\* update books set ... where id = id, returning the row, if any.
dbUpdateBook(id, updateData) ==
    IF id \notin DOMAIN db.books THEN [db |-> db, result |-> Undefined]
    ELSE LET book == Spread(db.books[id], updateData)
         IN  [db |-> [db EXCEPT !.books[id] = book], result |-> Returns(book)]

\* delete from books where id = id: rejected while a cart_items row refers to
\* the listing (cart_items.book_id references books.id).
dbDeleteBook(id) ==
    IF \E item \in Rows(db.cartItems) : item.bookId = id
    THEN [db |-> db, result |-> Throws]
    ELSE [db |-> [db EXCEPT !.books = Without(@, {id})],
          result |-> Returns(Boolean(id \in DOMAIN db.books))]

\* The results getCartItems may return.
dbGetCartItems(buyerId) ==
    Orderings({item \in Rows(db.cartItems) : item.buyerId = buyerId})

\* insert into cart_items: rejected when no listing has the bookId; the value
\* taken from the sequence is not given back.
dbAddToCart(insertCartItem) ==
    LET cartItem == Spread([id |-> db.cartItemsIdSeq], insertCartItem)
    IN  IF insertCartItem.bookId \notin DOMAIN db.books
        THEN [db |-> [db EXCEPT !.cartItemsIdSeq = @ + 1], result |-> Throws]
        ELSE [db |-> [db EXCEPT !.cartItems = @ @@ (cartItem.id :> cartItem),
                                !.cartItemsIdSeq = @ + 1],
              result |-> Returns(cartItem)]

\* delete from cart_items where buyer_id = buyerId and book_id = bookId
dbRemoveFromCart(buyerId, bookId) ==
    LET deleted == {item.id : item \in {row \in Rows(db.cartItems) :
                                            row.buyerId = buyerId /\ row.bookId = bookId}}
    IN  [db |-> [db EXCEPT !.cartItems = Without(@, deleted)],
         result |-> Returns(Boolean(Cardinality(deleted) > 0))]

\* delete from cart_items where buyer_id = buyerId
dbClearCart(buyerId) ==
    LET deleted == {item.id : item \in {row \in Rows(db.cartItems) :
                                            row.buyerId = buyerId}}
    IN  [db |-> [db EXCEPT !.cartItems = Without(@, deleted)],
         result |-> Returns(Boolean(Cardinality(deleted) >= 0))]

\* --------------------------------------------------------------------- Init
\* The store after construction, with no request in flight.
Constructed ==
    /\ users = <<>>
    /\ books = <<>>
    /\ orders = <<>>
    /\ orderItems = <<>>
    /\ messages = <<>>
    /\ cartItems = <<>>
    /\ currentUserId = 1
    /\ currentBookId = 1
    /\ currentOrderId = 1
    /\ currentOrderItemId = 1
    /\ currentMessageId = 1
    /\ currentCartItemId = 1
    /\ clock = 1
    /\ reqs = [r \in Reqs |-> IdleReq]
    /\ regs = [r \in Regs |-> IdleReg]
    /\ lineOrigin = <<>>
    /\ relisted = {}

\* Behaviours that do not observe the responses of the one-step routes.
Init == Constructed /\ http = Unobserved /\ db = NoDatabase /\ returned = NoCall

\* Behaviours that observe them.
InitObserved == Constructed /\ http = NoResponse /\ db = NoDatabase /\ returned = NoCall

\* A request in "done" is at the instant of its response, and so is a one-step
\* route whose response http holds.  The response belongs to the step that
\* made it, so no other step runs before OrdersEnd, RegisterEnd or HttpEnd.
Responding ==
    \/ \E r \in Reqs : reqs[r].pc = "done"
    \/ \E r \in Regs : regs[r].pc = "done"
    \/ http.status # 0

\* An order line refers to the listing.
Sold(bookId) == \E i \in DOMAIN orderItems : orderItems[i].bookId = bookId

\* ------------------------------------------------------ listing routes
\* PostBooks without the test of the caller's role.
PostBooksAnyRole(u, body) ==
    /\ ~Responding
    /\ currentBookId <= MaxBookId
    /\ books' = createBook(insertBookSchema(body), u)
    /\ currentBookId' = currentBookId + 1
    /\ http' = Reply(Response("POST /api/books", 201, u, currentBookId,
                              <<books'[currentBookId]>>))
    /\ UNCHANGED <<rest, orders, orderItems, cartItems, currentOrderId,
                   currentOrderItemId, currentCartItemId, reqs, lineOrigin, relisted>>

\* POST /api/books: 403 for a caller that is no seller.
PostBooks(u, body) ==
    /\ ~Responding
    /\ IF Role[u] # "seller"
       THEN /\ http' = Reply(Response("POST /api/books", 403, u, 0, <<>>))
            /\ UNCHANGED <<books, currentBookId>>
       ELSE /\ currentBookId <= MaxBookId
            /\ books' = createBook(insertBookSchema(body), u)
            /\ currentBookId' = currentBookId + 1
            /\ http' = Reply(Response("POST /api/books", 201, u, currentBookId,
                                      <<books'[currentBookId]>>))
    /\ UNCHANGED <<rest, orders, orderItems, cartItems, currentOrderId,
                   currentOrderItemId, currentCartItemId, reqs, lineOrigin, relisted>>

\* PutBooks without the test of the listing's owner.
PutBooksAnyCaller(u, id, body) ==
    LET book == getBook(id)
        bookData == insertBookSchema(body)
    IN  /\ ~Responding
        /\ books' = IF book # <<>> THEN updateBook(id, bookData) ELSE books
        /\ http' = Reply(
             IF book = <<>> THEN Response("PUT /api/books/:id", 404, u, id, <<>>)
             ELSE Response("PUT /api/books/:id", 200, u, id, <<books'[id]>>))
        /\ relisted' =
             IF book # <<>> /\ "isAvailable" \in DOMAIN bookData
             THEN IF bookData.isAvailable /\ Sold(id)
                  THEN relisted \cup {id} ELSE relisted \ {id}
             ELSE relisted
        /\ UNCHANGED <<rest, orders, orderItems, cartItems, currentBookId, currentOrderId,
                       currentOrderItemId, currentCartItemId, reqs, lineOrigin>>

\* PUT /api/books/:id.  One step: updateBook reads the record again and the
\* owner test is on sellerId, which no store call changes, so the handler's
\* getBook takes no step of its own (a delete in between makes updateBook
\* change nothing, as the 404 does).
PutBooks(u, id, body) ==
    LET book == getBook(id)
        allowed == book # <<>> /\ book[1].sellerId = u
        bookData == insertBookSchema(body)
    IN  /\ ~Responding
        /\ books' = IF allowed THEN updateBook(id, bookData) ELSE books
        /\ http' = Reply(
             IF book = <<>> THEN Response("PUT /api/books/:id", 404, u, id, <<>>)
             ELSE IF book[1].sellerId # u
             THEN Response("PUT /api/books/:id", 403, u, id, <<>>)
             ELSE Response("PUT /api/books/:id", 200, u, id, <<books'[id]>>))
        /\ relisted' =
             IF allowed /\ "isAvailable" \in DOMAIN bookData
             THEN IF bookData.isAvailable /\ Sold(id)
                  THEN relisted \cup {id} ELSE relisted \ {id}
             ELSE relisted
        /\ UNCHANGED <<rest, orders, orderItems, cartItems, currentBookId, currentOrderId,
                       currentOrderItemId, currentCartItemId, reqs, lineOrigin>>

\* DELETE /api/books/:id.  One step, for the same reason.
DeleteBooks(u, id) ==
    LET book == getBook(id)
        allowed == book # <<>> /\ book[1].sellerId = u
    IN  /\ ~Responding
        /\ books' = IF allowed THEN deleteBook(id) ELSE books
        /\ http' = Reply(
             IF book = <<>> THEN Response("DELETE /api/books/:id", 404, u, id, <<>>)
             ELSE IF book[1].sellerId # u
             THEN Response("DELETE /api/books/:id", 403, u, id, <<>>)
             ELSE Response("DELETE /api/books/:id", 204, u, id, <<>>))
        /\ relisted' = IF allowed THEN relisted \ {id} ELSE relisted
        /\ UNCHANGED <<rest, orders, orderItems, cartItems, currentBookId, currentOrderId,
                       currentOrderItemId, currentCartItemId, reqs, lineOrigin>>

\* ---------------------------------------------------------- cart routes
\* POST /api/cart
PostCart(u, bookId) ==
    /\ ~Responding
    /\ currentCartItemId <= MaxCartItemId
    /\ cartItems' = addToCart([buyerId |-> u, bookId |-> bookId])
    /\ currentCartItemId' = currentCartItemId + 1
    /\ http' = Reply(Response("POST /api/cart", 201, u, bookId, <<>>))
    /\ UNCHANGED <<rest, books, orders, orderItems, currentBookId, currentOrderId,
                   currentOrderItemId, reqs, lineOrigin, relisted>>

\* DELETE /api/cart/:bookId
DeleteCart(u, bookId) ==
    /\ ~Responding
    /\ cartItems' = removeFromCart(u, bookId)
    /\ http' = Reply(Response("DELETE /api/cart/:bookId", 204, u, bookId, <<>>))
    /\ UNCHANGED <<rest, books, orders, orderItems, currentBookId, currentOrderId,
                   currentOrderItemId, currentCartItemId, reqs, lineOrigin, relisted>>

\* ------------------------------------------- POST /api/auth/register
\* What the register and message routes neither read nor write.
shop == <<books, orders, orderItems, cartItems, currentBookId, currentOrderId,
          currentOrderItemId, currentCartItemId, reqs, lineOrigin, relisted,
          db, returned>>

\* Requests are numbered in the order of their arrival.
RegArrives(r) == regs[r].pc = "idle" /\ \A q \in Regs : q < r => regs[q].pc # "idle"

\* RegisterGetUserByEmail without the check for an existing user.
RegisterWithoutLookup(r, body) ==
    /\ ~Responding
    /\ RegArrives(r)
    /\ regs' = [regs EXCEPT ![r] =
           IF ~(UserFields \subseteq DOMAIN body)
           THEN [IdleReg EXCEPT !.pc = "done", !.resp = "400 Invalid input"]
           ELSE [IdleReg EXCEPT !.pc = "hash", !.userData = <<insertUserSchema(body)>>,
                                !.existingUser = getUserByEmail(body.email)]]
    /\ UNCHANGED <<store, shop, clock, http>>

\* insertUserSchema.parse, storage.getUserByEmail and the test of its result.
RegisterGetUserByEmail(r, body) ==
    /\ ~Responding
    /\ RegArrives(r)
    /\ regs' = [regs EXCEPT ![r] =
           IF ~(UserFields \subseteq DOMAIN body)
           THEN [IdleReg EXCEPT !.pc = "done", !.resp = "400 Invalid input"]
           ELSE LET userData == insertUserSchema(body)
                    existingUser == getUserByEmail(userData.email)
                    req == [IdleReg EXCEPT !.userData = <<userData>>,
                                           !.existingUser = existingUser]
                IN  IF existingUser # <<>>
                    THEN [req EXCEPT !.pc = "done", !.resp = "400 User already exists"]
                    ELSE [req EXCEPT !.pc = "hash"]]
    /\ UNCHANGED <<store, shop, clock, http>>

\* bcrypt.hash(userData.password, 10)
RegisterHash(r) ==
    /\ ~Responding
    /\ regs[r].pc = "hash"
    /\ regs' = [regs EXCEPT ![r] =
           [@ EXCEPT !.hashedPassword = <<bcryptHash(regs[r].userData[1].password)>>,
                     !.pc = "createUser"]]
    /\ UNCHANGED <<store, shop, clock, http>>

\* storage.createUser, jwt.sign and the 201 response.
RegisterCreateUser(r) ==
    /\ ~Responding
    /\ regs[r].pc = "createUser"
    /\ users' = createUser(Spread(regs[r].userData[1],
                                  [password |-> regs[r].hashedPassword[1]]))
    /\ currentUserId' = currentUserId + 1
    /\ LET user == users'[currentUserId]
       IN  regs' = [regs EXCEPT ![r] =
               [@ EXCEPT !.pc = "done", !.resp = "201", !.user = <<user>>,
                         !.token = <<jwtSign([userId |-> user.id, email |-> user.email,
                                              role |-> user.role], JWT_SECRET)>>]]
    /\ UNCHANGED <<shop, messages, currentMessageId, clock, http>>

\* The response has been sent; the handler's locals are dropped.
RegisterEnd(r) ==
    /\ regs[r].pc = "done"
    /\ regs' = [regs EXCEPT ![r] = [IdleReg EXCEPT !.pc = "ended"]]
    /\ UNCHANGED <<store, shop, clock, http>>

\* --------------------------------------------------- the read routes
\* GET /api/seller/books
GetSellerBooks(u) ==
    /\ ~Responding
    /\ http' = Reply(IF Role[u] # "seller"
                     THEN Response("GET /api/seller/books", 403, u, 0, <<>>)
                     ELSE Response("GET /api/seller/books", 200, u, 0,
                                   getBooksBySeller(u)))
    /\ UNCHANGED <<store, shop, clock, regs>>

\* GET /api/cart: the caller's cart entries, each with its listing.  The
\* handler only reads; its reads are taken in one step.
GetCart(u) ==
    /\ ~Responding
    /\ LET items == getCartItems(u)
       IN  http' = Reply(Response("GET /api/cart", 200, u, 0,
               [i \in 1..Len(items) |->
                   Spread(items[i], [book |-> getBook(items[i].bookId)])]))
    /\ UNCHANGED <<store, shop, clock, regs>>

\* GET /api/orders: the caller's orders, each with its lines and their
\* listings.  The handler only reads; its reads are taken in one step.
GetOrders(u) ==
    /\ ~Responding
    /\ LET list == getOrdersByBuyer(u)
           WithBooks(items) ==
               [i \in 1..Len(items) |->
                   Spread(items[i], [book |-> getBook(items[i].bookId)])]
       IN  http' = Reply(Response("GET /api/orders", 200, u, 0,
               [i \in 1..Len(list) |->
                   Spread(list[i], [items |-> WithBooks(getOrderItems(list[i].id))])]))
    /\ UNCHANGED <<store, shop, clock, regs>>

\* ------------------------------------------------- the message routes
\* GET /api/messages/:userId
GetMessages(u, otherUserId) ==
    /\ ~Responding
    /\ http' = Reply(Response("GET /api/messages/:userId", 200, u, otherUserId,
                              getMessagesBetweenUsers(u, otherUserId)))
    /\ UNCHANGED <<store, shop, clock, regs>>

\* PostMessages with the spread the wrong way round: the body's senderId wins.
PostMessagesSenderOfBody(u, body) ==
    LET given == Spread([senderId |-> u], body)
    IN  /\ ~Responding
        /\ currentMessageId <= MaxMessageId
        /\ IF ~({"senderId", "receiverId", "content"} \subseteq DOMAIN given)
           THEN /\ http' = Reply(Response("POST /api/messages", 400, u, 0, <<>>))
                /\ UNCHANGED <<messages, currentMessageId>>
           ELSE /\ messages' = createMessage(insertMessageSchema(given))
                /\ currentMessageId' = currentMessageId + 1
                /\ http' = Reply(Response("POST /api/messages", 201, u, given.receiverId,
                                          <<messages'[currentMessageId]>>))
        /\ UNCHANGED <<users, currentUserId, shop, clock, regs>>

\* POST /api/messages: the sender is the caller, whatever the body says; 400
\* when a required field is missing.
PostMessages(u, body) ==
    LET given == Spread(body, [senderId |-> u])
    IN  /\ ~Responding
        /\ currentMessageId <= MaxMessageId
        /\ IF ~({"senderId", "receiverId", "content"} \subseteq DOMAIN given)
           THEN /\ http' = Reply(Response("POST /api/messages", 400, u, 0, <<>>))
                /\ UNCHANGED <<messages, currentMessageId>>
           ELSE /\ messages' = createMessage(insertMessageSchema(given))
                /\ currentMessageId' = currentMessageId + 1
                /\ http' = Reply(Response("POST /api/messages", 201, u, given.receiverId,
                                          <<messages'[currentMessageId]>>))
        /\ UNCHANGED <<users, currentUserId, shop, clock, regs>>

\* The wall clock shows another time: later, or earlier after a correction.
ClockMoves(t) ==
    /\ ~Responding
    /\ t # clock
    /\ clock' = t
    /\ UNCHANGED <<store, shop, regs, http>>

\* ------------------------------------------------ POST /api/orders (checkout)
\* NextItem that leaves the loop after the first entry.
NextItemBreaks(req) == [req EXCEPT !.pc = "clearCart", !.book = <<>>, !.lookedUp = 0]

\* The step after the current cart entry: the next loop iteration or clearCart.
NextItem(req) ==
    IF req.idx < Len(req.cartItems)
    THEN [req EXCEPT !.idx = req.idx + 1, !.pc = "getBook", !.book = <<>>,
                     !.lookedUp = 0]
    ELSE [req EXCEPT !.pc = "clearCart", !.book = <<>>, !.lookedUp = 0]

\* Requests are numbered in the order of their arrival.
Arrives(r) == reqs[r].pc = "idle" /\ \A q \in Reqs : q < r => reqs[q].pc # "idle"
\* No earlier request is still in flight.
NoneInFlight == \A q \in Reqs : reqs[q].pc \in {"idle", "ended"}

\* OrdersGetCartItems with the order created before the empty-cart check.
OrdersGetCartItemsOrderFirst(r, u, total) ==
    /\ ~Responding
    /\ Arrives(r)
    /\ LET items == getCartItems(u)
           req == [IdleReq EXCEPT !.userId = u, !.total = total, !.cartItems = items]
       IN  IF total = <<>>
           THEN /\ reqs' = [reqs EXCEPT ![r] =
                       [req EXCEPT !.pc = "done", !.resp = "400 Failed to create order"]]
                /\ UNCHANGED <<orders, currentOrderId>>
           ELSE /\ orders' = createOrder([buyerId |-> u, total |-> toString(total[1]),
                                          status |-> "completed"])
                /\ currentOrderId' = currentOrderId + 1
                /\ reqs' = [reqs EXCEPT ![r] =
                       IF Len(items) = 0
                       THEN [req EXCEPT !.pc = "done", !.resp = "400 Cart is empty"]
                       ELSE [req EXCEPT !.orderId = currentOrderId, !.idx = 1,
                                        !.pc = "getBook"]]
    /\ UNCHANGED <<rest, http, books, orderItems, cartItems, currentBookId, currentOrderItemId,
                   currentCartItemId, lineOrigin, relisted>>

\* storage.getCartItems, the empty-cart check and the evaluation of
\* createOrder's argument (total.toString() throws on an absent total).
OrdersGetCartItems(r, u, total) ==
    /\ ~Responding
    /\ Arrives(r)
    /\ LET items == getCartItems(u)
           req == [IdleReq EXCEPT !.userId = u, !.total = total, !.cartItems = items]
       IN  reqs' = [reqs EXCEPT ![r] =
               IF Len(items) = 0
               THEN [req EXCEPT !.pc = "done", !.resp = "400 Cart is empty"]
               ELSE IF total = <<>>
               THEN [req EXCEPT !.pc = "done", !.resp = "400 Failed to create order"]
               ELSE [req EXCEPT !.pc = "createOrder"]]
    /\ UNCHANGED <<rest, http, store, lineOrigin, relisted>>

\* OrdersCreateOrder that computes the total from the prices of the listings
\* in the cart instead of taking the caller's.
RECURSIVE SumOfPrices(_)
SumOfPrices(items) ==
    IF items = <<>> THEN 0
    ELSE (IF items[1].bookId \in DOMAIN books THEN books[items[1].bookId].price ELSE 0)
             + SumOfPrices(Tail(items))
OrdersCreateOrderSumsPrices(r) ==
    /\ ~Responding
    /\ reqs[r].pc = "createOrder"
    /\ orders' = createOrder([buyerId |-> reqs[r].userId,
                              total |-> toString(SumOfPrices(reqs[r].cartItems)),
                              status |-> "completed"])
    /\ currentOrderId' = currentOrderId + 1
    /\ reqs' = [reqs EXCEPT ![r] =
                   [@ EXCEPT !.orderId = currentOrderId, !.idx = 1, !.pc = "getBook"]]
    /\ UNCHANGED <<rest, http, books, orderItems, cartItems, currentBookId, currentOrderItemId,
                   currentCartItemId, lineOrigin, relisted>>

\* storage.createOrder
OrdersCreateOrder(r) ==
    /\ ~Responding
    /\ reqs[r].pc = "createOrder"
    /\ orders' = createOrder([buyerId |-> reqs[r].userId,
                              total |-> toString(reqs[r].total[1]),
                              status |-> "completed"])
    /\ currentOrderId' = currentOrderId + 1
    /\ reqs' = [reqs EXCEPT ![r] =
                   [@ EXCEPT !.orderId = currentOrderId, !.idx = 1, !.pc = "getBook"]]
    /\ UNCHANGED <<rest, http, books, orderItems, cartItems, currentBookId, currentOrderItemId,
                   currentCartItemId, lineOrigin, relisted>>

\* History of a lookup: what the store held for the cart entry's listing.
LookedUp(req, cartItem) ==
    IF cartItem.bookId \in DOMAIN books
    THEN [req EXCEPT !.found = @ \cup {cartItem.id},
                     !.lookedUp = books[cartItem.bookId].price]
    ELSE [req EXCEPT !.vanished = @ \cup {cartItem.id}]

\* OrdersGetBook with a double-sale guard: a listing that is no longer
\* available is skipped like a vanished one.
OrdersGetBookIfAvailable(r) ==
    /\ ~Responding
    /\ reqs[r].pc = "getBook"
    /\ LET req == reqs[r]
           cartItem == req.cartItems[req.idx]
           book == getBook(cartItem.bookId)
           seen == LookedUp(req, cartItem)
       IN  reqs' = [reqs EXCEPT ![r] =
               IF book # <<>> /\ book[1].isAvailable
               THEN [seen EXCEPT !.book = book, !.pc = "createOrderItem"]
               ELSE NextItem(seen)]
    /\ UNCHANGED <<rest, http, store, lineOrigin, relisted>>

\* OrdersGetBook that fails the checkout when a listing is missing.
OrdersGetBookFailsOnMissing(r) ==
    /\ ~Responding
    /\ reqs[r].pc = "getBook"
    /\ LET req == reqs[r]
           cartItem == req.cartItems[req.idx]
           book == getBook(cartItem.bookId)
           seen == LookedUp(req, cartItem)
       IN  reqs' = [reqs EXCEPT ![r] =
               IF book # <<>>
               THEN [seen EXCEPT !.book = book, !.pc = "createOrderItem"]
               ELSE [seen EXCEPT !.pc = "done", !.resp = "404 Book not found"]]
    /\ UNCHANGED <<rest, http, store, lineOrigin, relisted>>

\* OrdersGetBook that goes on to mark the listing unavailable without the
\* order line having been created.
OrdersGetBookThenUpdate(r) ==
    /\ ~Responding
    /\ reqs[r].pc = "getBook"
    /\ LET req == reqs[r]
           cartItem == req.cartItems[req.idx]
           book == getBook(cartItem.bookId)
           seen == LookedUp(req, cartItem)
       IN  reqs' = [reqs EXCEPT ![r] =
               IF book # <<>>
               THEN [seen EXCEPT !.book = book, !.pc = "updateBook"]
               ELSE NextItem(seen)]
    /\ UNCHANGED <<rest, http, store, lineOrigin, relisted>>

\* storage.getBook(cartItem.bookId) and the test of its result
OrdersGetBook(r) ==
    /\ ~Responding
    /\ reqs[r].pc = "getBook"
    /\ LET req == reqs[r]
           cartItem == req.cartItems[req.idx]
           book == getBook(cartItem.bookId)
           seen == LookedUp(req, cartItem)
       IN  reqs' = [reqs EXCEPT ![r] =
               IF book # <<>>
               THEN [seen EXCEPT !.book = book, !.pc = "createOrderItem"]
               ELSE NextItem(seen)]
    /\ UNCHANGED <<rest, http, store, lineOrigin, relisted>>

\* OrdersCreateOrderItem that reads the listing's price again instead of using
\* the record the lookup returned.
OrdersCreateOrderItemCurrentPrice(r) ==
    /\ ~Responding
    /\ reqs[r].pc = "createOrderItem"
    /\ LET req == reqs[r]
           cartItem == req.cartItems[req.idx]
           now == getBook(cartItem.bookId)
       IN  /\ orderItems' = createOrderItem([orderId |-> req.orderId,
                                             bookId |-> cartItem.bookId,
                                             price |-> IF now # <<>> THEN now[1].price
                                                       ELSE req.book[1].price])
           /\ lineOrigin' = lineOrigin @@ (currentOrderItemId :>
                  [cartItem |-> cartItem, priceAtLookup |-> req.lookedUp])
    /\ currentOrderItemId' = currentOrderItemId + 1
    /\ reqs' = [reqs EXCEPT ![r].pc = "updateBook"]
    /\ UNCHANGED <<rest, http, books, orders, cartItems, currentBookId, currentOrderId,
                   currentCartItemId, relisted>>

\* storage.createOrderItem
OrdersCreateOrderItem(r) ==
    /\ ~Responding
    /\ reqs[r].pc = "createOrderItem"
    /\ LET req == reqs[r]
           cartItem == req.cartItems[req.idx]
       IN  /\ orderItems' = createOrderItem([orderId |-> req.orderId,
                                             bookId |-> cartItem.bookId,
                                             price |-> req.book[1].price])
           /\ lineOrigin' = lineOrigin @@ (currentOrderItemId :>
                  [cartItem |-> cartItem, priceAtLookup |-> req.lookedUp])
    /\ currentOrderItemId' = currentOrderItemId + 1
    /\ reqs' = [reqs EXCEPT ![r].pc = "updateBook"]
    /\ UNCHANGED <<rest, http, books, orders, cartItems, currentBookId, currentOrderId,
                   currentCartItemId, relisted>>

\* OrdersUpdateBook that writes isAvailable: true.
OrdersUpdateBookTrue(r) ==
    /\ ~Responding
    /\ reqs[r].pc = "updateBook"
    /\ LET req == reqs[r]
           cartItem == req.cartItems[req.idx]
       IN  /\ books' = updateBook(cartItem.bookId, [isAvailable |-> TRUE])
           /\ relisted' = relisted \ {cartItem.bookId}
           /\ reqs' = [reqs EXCEPT ![r] = NextItem(req)]
    /\ UNCHANGED <<rest, http, orders, orderItems, cartItems, currentBookId, currentOrderId,
                   currentOrderItemId, currentCartItemId, lineOrigin>>

\* storage.updateBook(cartItem.bookId, { isAvailable: false })
OrdersUpdateBook(r) ==
    /\ ~Responding
    /\ reqs[r].pc = "updateBook"
    /\ LET req == reqs[r]
           cartItem == req.cartItems[req.idx]
       IN  /\ books' = updateBook(cartItem.bookId, [isAvailable |-> FALSE])
           /\ relisted' = relisted \ {cartItem.bookId}
           /\ reqs' = [reqs EXCEPT ![r] = NextItem(req)]
    /\ UNCHANGED <<rest, http, orders, orderItems, cartItems, currentBookId, currentOrderId,
                   currentOrderItemId, currentCartItemId, lineOrigin>>

\* storage.clearCart and the 201 response
OrdersClearCart(r) ==
    /\ ~Responding
    /\ reqs[r].pc = "clearCart"
    /\ cartItems' = clearCart(reqs[r].userId)
    /\ reqs' = [reqs EXCEPT ![r] = [@ EXCEPT !.pc = "done", !.resp = "201"]]
    /\ UNCHANGED <<rest, http, books, orders, orderItems, currentBookId, currentOrderId,
                   currentOrderItemId, currentCartItemId, lineOrigin, relisted>>

\* OrdersThrows with a rollback: the catch block deletes the order and its
\* lines before it answers.
OrdersThrowsRollsBack(r) ==
    /\ ~Responding
    /\ reqs[r].pc \in {"createOrder", "getBook", "createOrderItem", "updateBook",
                      "clearCart"}
    /\ orders' = Without(orders, {reqs[r].orderId})
    /\ orderItems' = Without(orderItems,
                             {i \in DOMAIN orderItems : orderItems[i].orderId = reqs[r].orderId})
    /\ reqs' = [reqs EXCEPT ![r] =
                   [@ EXCEPT !.pc = "done", !.resp = "400 Failed to create order"]]
    /\ UNCHANGED <<rest, http, books, cartItems, currentBookId, currentOrderId,
                   currentOrderItemId, currentCartItemId, lineOrigin, relisted>>

\* The store call the checkout is waiting for fails (the store is
\* unavailable): the call has no effect, the await throws and the catch block
\* answers 400.
OrdersThrows(r) ==
    /\ ~Responding
    /\ reqs[r].pc \in {"createOrder", "getBook", "createOrderItem", "updateBook",
                      "clearCart"}
    /\ reqs' = [reqs EXCEPT ![r] =
                   [@ EXCEPT !.pc = "done", !.resp = "400 Failed to create order"]]
    /\ UNCHANGED <<rest, http, store, lineOrigin, relisted>>

\* The response has been sent; the handler's locals are dropped.
OrdersEnd(r) ==
    /\ reqs[r].pc = "done"
    /\ reqs' = [reqs EXCEPT ![r] = [IdleReq EXCEPT !.pc = "ended"]]
    /\ UNCHANGED <<rest, http, store, lineOrigin, relisted>>

\* --------------------------------------------------------------------- Next
\* A checkout that arrives when no other is in flight.
OrdersGetCartItemsAlone(r, u, total) ==
    /\ NoneInFlight
    /\ OrdersGetCartItems(r, u, total)

\* The listing routes with the inputs that decide what a checkout finds: the
\* listing exists or not, is available or not.
PostBooksConc(u, body) == body.price = 10 /\ PostBooks(u, body)
PutBooksConc(u, id, body) == DOMAIN body = {"isAvailable"} /\ PutBooks(u, id, body)

\* Checkouts one at a time, interleaved with the other routes.
Next ==
    \/ \E u \in Users, body \in BookInputs : PostBooks(u, body)
    \/ \E u \in Users, id \in BookIds, body \in Patches : PutBooks(u, id, body)
    \/ \E u \in Users, id \in BookIds : DeleteBooks(u, id)
    \/ \E u \in Buyers, bookId \in BookIds : PostCart(u, bookId)
    \/ \E u \in Buyers, bookId \in BookIds : DeleteCart(u, bookId)
    \/ \E r \in Reqs, u \in Buyers, total \in Totals : OrdersGetCartItemsAlone(r, u, total)
    \/ \E r \in Reqs : OrdersCreateOrder(r)
    \/ \E r \in Reqs : OrdersGetBook(r)
    \/ \E r \in Reqs : OrdersCreateOrderItem(r)
    \/ \E r \in Reqs : OrdersUpdateBook(r)
    \/ \E r \in Reqs : OrdersClearCart(r)
    \/ \E r \in Reqs : OrdersEnd(r)

Spec == Init /\ [][Next]_vars

\* Checkouts in flight together, interleaved with each other at their store
\* calls and with the other routes.
NextConc ==
    \/ \E u \in Users, body \in BookInputs : PostBooksConc(u, body)
    \/ \E u \in Users, id \in BookIds, body \in Patches : PutBooksConc(u, id, body)
    \/ \E u \in Users, id \in BookIds : DeleteBooks(u, id)
    \/ \E u \in Buyers, bookId \in BookIds : PostCart(u, bookId)
    \/ \E u \in Buyers, bookId \in BookIds : DeleteCart(u, bookId)
    \/ \E r \in Reqs, u \in Buyers, total \in Totals : OrdersGetCartItems(r, u, total)
    \/ \E r \in Reqs : OrdersCreateOrder(r)
    \/ \E r \in Reqs : OrdersGetBook(r)
    \/ \E r \in Reqs : OrdersCreateOrderItem(r)
    \/ \E r \in Reqs : OrdersUpdateBook(r)
    \/ \E r \in Reqs : OrdersClearCart(r)
    \/ \E r \in Reqs : OrdersEnd(r)

SpecConc == Init /\ [][NextConc]_vars

\* Checkouts one at a time over a store whose calls may fail.
NextFail ==
    \/ \E u \in Users, body \in BookInputs : PostBooksConc(u, body)
    \/ \E u \in Users, id \in BookIds, body \in Patches : PutBooksConc(u, id, body)
    \/ \E u \in Users, id \in BookIds : DeleteBooks(u, id)
    \/ \E u \in Buyers, bookId \in BookIds : PostCart(u, bookId)
    \/ \E u \in Buyers, bookId \in BookIds : DeleteCart(u, bookId)
    \/ \E r \in Reqs, u \in Buyers, total \in Totals : OrdersGetCartItemsAlone(r, u, total)
    \/ \E r \in Reqs : OrdersCreateOrder(r)
    \/ \E r \in Reqs : OrdersGetBook(r)
    \/ \E r \in Reqs : OrdersCreateOrderItem(r)
    \/ \E r \in Reqs : OrdersUpdateBook(r)
    \/ \E r \in Reqs : OrdersClearCart(r)
    \/ \E r \in Reqs : OrdersThrows(r)
    \/ \E r \in Reqs : OrdersEnd(r)

SpecFail == Init /\ [][NextFail]_vars

\* ------------------------------------------------------------- the gate
\* authenticateToken without the verification: any token's payload passes.
authenticateTokenUnverified(authHeader) ==
    LET token == IF authHeader # <<>> /\ Len(authHeader) >= 2
                 THEN <<authHeader[2]>> ELSE <<>>
    IN  IF token = <<>> THEN [status |-> 401, user |-> <<>>]
        ELSE [status |-> 0, user |-> <<token[1].payload>>]

\* authenticateToken: 401 without a token, 403 for a token that fails
\* jwt.verify, else req.user is the payload and next() runs the handler.
authenticateToken(authHeader) ==
    LET token == IF authHeader # <<>> /\ Len(authHeader) >= 2
                 THEN <<authHeader[2]>> ELSE <<>>
    IN  IF token = <<>> THEN [status |-> 401, user |-> <<>>]
        ELSE IF ~jwtVerify(token[1], JWT_SECRET) THEN [status |-> 403, user |-> <<>>]
        ELSE [status |-> 0, user |-> <<token[1].payload>>]

\* The gate's own response, the same on every route; the handler does not run.
Rejected(status) ==
    /\ ~Responding
    /\ http' = Response("authenticateToken", status, 0, 0, <<>>)
    /\ UNCHANGED <<store, shop, clock, regs>>

\* The authenticated routes: authenticateToken, then the handler.
HttpPostBooks(authHeader, body) ==
    LET gate == authenticateToken(authHeader)
    IN  IF gate.user = <<>> THEN Rejected(gate.status)
        ELSE PostBooks(gate.user[1].userId, body)

HttpPutBooks(authHeader, id, body) ==
    LET gate == authenticateToken(authHeader)
    IN  IF gate.user = <<>> THEN Rejected(gate.status)
        ELSE PutBooks(gate.user[1].userId, id, body)

HttpDeleteBooks(authHeader, id) ==
    LET gate == authenticateToken(authHeader)
    IN  IF gate.user = <<>> THEN Rejected(gate.status)
        ELSE DeleteBooks(gate.user[1].userId, id)

HttpGetSellerBooks(authHeader) ==
    LET gate == authenticateToken(authHeader)
    IN  IF gate.user = <<>> THEN Rejected(gate.status)
        ELSE GetSellerBooks(gate.user[1].userId)

HttpGetCart(authHeader) ==
    LET gate == authenticateToken(authHeader)
    IN  IF gate.user = <<>> THEN Rejected(gate.status)
        ELSE GetCart(gate.user[1].userId)

HttpPostCart(authHeader, bookId) ==
    LET gate == authenticateToken(authHeader)
    IN  IF gate.user = <<>> THEN Rejected(gate.status)
        ELSE PostCart(gate.user[1].userId, bookId)

HttpDeleteCart(authHeader, bookId) ==
    LET gate == authenticateToken(authHeader)
    IN  IF gate.user = <<>> THEN Rejected(gate.status)
        ELSE DeleteCart(gate.user[1].userId, bookId)

HttpPostOrders(authHeader, r, total) ==
    LET gate == authenticateToken(authHeader)
    IN  IF gate.user = <<>> THEN Rejected(gate.status)
        ELSE OrdersGetCartItemsAlone(r, gate.user[1].userId, total)

HttpGetOrders(authHeader) ==
    LET gate == authenticateToken(authHeader)
    IN  IF gate.user = <<>> THEN Rejected(gate.status)
        ELSE GetOrders(gate.user[1].userId)

HttpGetMessages(authHeader, otherUserId) ==
    LET gate == authenticateToken(authHeader)
    IN  IF gate.user = <<>> THEN Rejected(gate.status)
        ELSE GetMessages(gate.user[1].userId, otherUserId)

HttpPostMessages(authHeader, body) ==
    LET gate == authenticateToken(authHeader)
    IN  IF gate.user = <<>> THEN Rejected(gate.status)
        ELSE PostMessages(gate.user[1].userId, body)

\* The response has been sent.
HttpEnd ==
    /\ http.status # 0
    /\ http' = NoResponse
    /\ UNCHANGED <<store, shop, clock, regs>>

\* The listing and cart routes behind the gate, with observed responses.  The
\* listing inputs are those that decide the responses: the caller is a seller
\* or not, owns the listing or not, and the body names a sellerId or not.
NextHttp ==
    \/ \E h \in Headers, body \in {b \in BookInputs : b.price = 10} :
           HttpPostBooks(h, body)
    \/ \E h \in Headers, id \in BookIds, body \in {b \in Patches : "price" \notin DOMAIN b} :
           HttpPutBooks(h, id, body)
    \/ \E h \in Headers, id \in BookIds : HttpDeleteBooks(h, id)
    \/ \E h \in Headers : HttpGetSellerBooks(h)
    \/ \E h \in HeadersOf(Buyers) : HttpGetCart(h)
    \/ \E h \in HeadersOf(Buyers), bookId \in BookIds : HttpPostCart(h, bookId)
    \/ \E h \in HeadersOf(Buyers), bookId \in BookIds : HttpDeleteCart(h, bookId)
    \/ HttpEnd

SpecHttp == InitObserved /\ [][NextHttp]_vars

\* The message routes behind the gate, with the wall clock.
NextMsg ==
    \/ \E h \in Headers, otherUserId \in Users : HttpGetMessages(h, otherUserId)
    \/ \E h \in Headers, body \in MessageInputs : HttpPostMessages(h, body)
    \/ \E t \in Times : ClockMoves(t)
    \/ HttpEnd

SpecMsg == InitObserved /\ [][NextMsg]_vars

\* Every authenticated route behind the gate, with observed responses and
\* checkouts one at a time.  The inputs are those that decide what the gate
\* and the handlers answer: every header on every route, a seller and a
\* buyer, one listing body, one buyer's cart and checkout, one sender.
NextGate ==
    \/ \E h \in HeadersOf({1, 3}), body \in {b \in BookInputs : DOMAIN b \subseteq BookFields /\ b.price = 10} :
           HttpPostBooks(h, body)
    \/ \E h \in HeadersOf({1, 3}), id \in BookIds, body \in {[isAvailable |-> FALSE]} :
           HttpPutBooks(h, id, body)
    \/ \E h \in HeadersOf({1, 3}), id \in BookIds : HttpDeleteBooks(h, id)
    \/ \E h \in HeadersOf({1, 3}) : HttpGetSellerBooks(h)
    \/ \E h \in HeadersOf({1}) : HttpGetCart(h)
    \/ \E h \in HeadersOf({1}), bookId \in BookIds : HttpPostCart(h, bookId)
    \/ \E h \in HeadersOf({1}), bookId \in BookIds : HttpDeleteCart(h, bookId)
    \/ \E h \in HeadersOf({1}), r \in Reqs, total \in Totals : HttpPostOrders(h, r, total)
    \/ \E h \in HeadersOf({1}) : HttpGetOrders(h)
    \/ \E h \in HeadersOf({1}), otherUserId \in {3} : HttpGetMessages(h, otherUserId)
    \/ \E h \in HeadersOf({1}), body \in {b \in MessageInputs : DOMAIN b = {"receiverId", "content"} /\ b.receiverId = 3} :
           HttpPostMessages(h, body)
    \/ \E r \in Reqs : OrdersCreateOrder(r)
    \/ \E r \in Reqs : OrdersGetBook(r)
    \/ \E r \in Reqs : OrdersCreateOrderItem(r)
    \/ \E r \in Reqs : OrdersUpdateBook(r)
    \/ \E r \in Reqs : OrdersClearCart(r)
    \/ \E r \in Reqs : OrdersEnd(r)
    \/ HttpEnd

SpecGate == InitObserved /\ [][NextGate]_vars

\* Registrations in flight together, interleaved at their awaits.
NextReg ==
    \/ \E r \in Regs, body \in RegisterInputs : RegisterGetUserByEmail(r, body)
    \/ \E r \in Regs : RegisterHash(r)
    \/ \E r \in Regs : RegisterCreateUser(r)
    \/ \E r \in Regs : RegisterEnd(r)

SpecReg == Init /\ [][NextReg]_vars

\* ------------------------------------------- the store's methods, called
\* directly.  Where a DatabaseStorage runs beside the MemStorage each call is
\* made on both, from the same initial state, and what each returned is kept.
Database(call) == IF db = NoDatabase THEN db ELSE call.db
Called(mem, call) ==
    IF db = NoDatabase THEN returned ELSE [mem |-> mem, db |-> call.result]
\* What the store's methods do not write.
handlers == <<clock, reqs, regs, http, lineOrigin, relisted>>

StorageCreateUser(insertUser) ==
    /\ currentUserId <= NumRegs
    /\ users' = createUser(insertUser)
    /\ currentUserId' = currentUserId + 1
    /\ UNCHANGED <<messages, currentMessageId, shop, handlers>>

StorageGetBooks(filters) ==
    /\ \E result \in dbGetBooks(filters) :
           returned' = Called(Returns(Array(getBooks(filters))),
                              [db |-> db, result |-> Returns(Array(result))])
    /\ UNCHANGED <<store, db, handlers>>

StorageCreateBook(insertBook, sellerId) ==
    /\ currentBookId <= MaxListings
    /\ books' = createBook(insertBook, sellerId)
    /\ currentBookId' = currentBookId + 1
    /\ db' = Database(dbCreateBook(insertBook, sellerId))
    /\ returned' = Called(Returns(books'[currentBookId]),
                          dbCreateBook(insertBook, sellerId))
    /\ UNCHANGED <<users, orders, orderItems, messages, cartItems, currentUserId,
                   currentOrderId, currentOrderItemId, currentMessageId,
                   currentCartItemId, handlers>>

StorageUpdateBook(id, updateData) ==
    /\ books' = updateBook(id, updateData)
    /\ db' = Database(dbUpdateBook(id, updateData))
    /\ returned' = Called(IF id \in DOMAIN books THEN Returns(books'[id]) ELSE Undefined,
                          dbUpdateBook(id, updateData))
    /\ UNCHANGED <<users, orders, orderItems, messages, cartItems, currentUserId,
                   currentBookId, currentOrderId, currentOrderItemId,
                   currentMessageId, currentCartItemId, handlers>>

StorageDeleteBook(id) ==
    /\ books' = deleteBook(id)
    /\ db' = Database(dbDeleteBook(id))
    /\ returned' = Called(Returns(Boolean(id \in DOMAIN books)), dbDeleteBook(id))
    /\ UNCHANGED <<users, orders, orderItems, messages, cartItems, currentUserId,
                   currentBookId, currentOrderId, currentOrderItemId,
                   currentMessageId, currentCartItemId, handlers>>

StorageCreateOrder(insertOrder) ==
    /\ currentOrderId <= NumReqs
    /\ orders' = createOrder(insertOrder)
    /\ currentOrderId' = currentOrderId + 1
    /\ UNCHANGED <<users, books, orderItems, messages, cartItems, currentUserId,
                   currentBookId, currentOrderItemId, currentMessageId,
                   currentCartItemId, db, returned, handlers>>

StorageCreateOrderItem(insertOrderItem) ==
    /\ currentOrderItemId <= MaxCartItemId
    /\ orderItems' = createOrderItem(insertOrderItem)
    /\ currentOrderItemId' = currentOrderItemId + 1
    /\ UNCHANGED <<users, books, orders, messages, cartItems, currentUserId,
                   currentBookId, currentOrderId, currentMessageId,
                   currentCartItemId, db, returned, handlers>>

StorageCreateMessage(insertMessage) ==
    /\ currentMessageId <= MaxMessageId
    /\ messages' = createMessage(insertMessage)
    /\ currentMessageId' = currentMessageId + 1
    /\ UNCHANGED <<users, currentUserId, shop, handlers>>

StorageGetCartItems(buyerId) ==
    /\ \E result \in dbGetCartItems(buyerId) :
           returned' = Called(Returns(Array(getCartItems(buyerId))),
                              [db |-> db, result |-> Returns(Array(result))])
    /\ UNCHANGED <<store, db, handlers>>

StorageAddToCart(insertCartItem) ==
    /\ currentCartItemId <= MaxCartItemId
    /\ cartItems' = addToCart(insertCartItem)
    /\ currentCartItemId' = currentCartItemId + 1
    /\ db' = Database(dbAddToCart(insertCartItem))
    /\ returned' = Called(Returns(cartItems'[currentCartItemId]),
                          dbAddToCart(insertCartItem))
    /\ UNCHANGED <<users, books, orders, orderItems, messages, currentUserId,
                   currentBookId, currentOrderId, currentOrderItemId,
                   currentMessageId, handlers>>

StorageRemoveFromCart(buyerId, bookId) ==
    /\ cartItems' = removeFromCart(buyerId, bookId)
    /\ db' = Database(dbRemoveFromCart(buyerId, bookId))
    /\ returned' = Called(Returns(Boolean(cartItems' # cartItems)),
                          dbRemoveFromCart(buyerId, bookId))
    /\ UNCHANGED <<users, books, orders, orderItems, messages, currentUserId,
                   currentBookId, currentOrderId, currentOrderItemId,
                   currentMessageId, currentCartItemId, handlers>>

StorageClearCart(buyerId) ==
    /\ cartItems' = clearCart(buyerId)
    /\ db' = Database(dbClearCart(buyerId))
    /\ returned' = Called(Returns(Boolean(TRUE)), dbClearCart(buyerId))
    /\ UNCHANGED <<users, books, orders, orderItems, messages, currentUserId,
                   currentBookId, currentOrderId, currentOrderItemId,
                   currentMessageId, currentCartItemId, handlers>>

\* The methods of listings and carts on both stores, with the inputs that
\* decide what they do: the listing exists or not, the input names
\* isAvailable or not, the buyer holds an entry for the listing or not.
InitStores ==
    Constructed /\ http = Unobserved /\ db = EmptyDatabase /\ returned = NoCall

NextStores ==
    \/ \E body \in BookInputs, sellerId \in {3} :
           StorageCreateBook(insertBookSchema(body), sellerId)
    \/ \E id \in ListingIds,
             updateData \in {[price |-> 20], [isAvailable |-> FALSE],
                             [price |-> 20, isAvailable |-> TRUE]} :
           StorageUpdateBook(id, updateData)
    \/ \E id \in ListingIds : StorageDeleteBook(id)
    \/ \E buyerId \in Buyers, bookId \in ListingIds :
           StorageAddToCart([buyerId |-> buyerId, bookId |-> bookId])
    \/ \E buyerId \in Buyers, bookId \in ListingIds :
           StorageRemoveFromCart(buyerId, bookId)
    \/ \E buyerId \in Buyers : StorageClearCart(buyerId)
    \/ \E buyerId \in Buyers : StorageGetCartItems(buyerId)
    \/ \E filters \in {f \in Filters : f.category = "" /\ f.condition = ""} :
           StorageGetBooks(filters)

SpecStores == InitStores /\ [][NextStores]_vars

\* Every inserting and deleting method of the MemStorage, each with one input.
NextIds ==
    \/ StorageCreateUser([email |-> <<"d">>, password |-> bcryptHash(<<"s">>),
                          name |-> <<"F">>, role |-> "buyer"])
    \/ \E body \in {b \in BookInputs : DOMAIN b \subseteq SuppliedFields /\ b.price = 10} :
           StorageCreateBook(insertBookSchema(body), 3)
    \/ \E id \in ListingIds : StorageDeleteBook(id)
    \/ StorageCreateOrder([buyerId |-> 1, total |-> toString(7), status |-> "completed"])
    \/ StorageCreateOrderItem([orderId |-> 1, bookId |-> 1, price |-> 10])
    \/ StorageCreateMessage([senderId |-> 1, receiverId |-> 3, content |-> <<"s">>])
    \/ StorageAddToCart([buyerId |-> 1, bookId |-> 1])
    \/ StorageRemoveFromCart(1, 1)
    \/ StorageClearCart(1)

SpecIds == Init /\ [][NextIds]_vars

\* =================================================================== claims
\* The order lines of an order, and the requests at the instant of a 201.
LinesOf(orderId) == {i \in DOMAIN orderItems : orderItems[i].orderId = orderId}
Returned201(r) == reqs[r].pc = "done" /\ reqs[r].resp = "201"
IdsOf(items) == {item.id : item \in Range(items)}

\* C1 (as claimed): a book sells at most once, that is, every listing id is
\* referenced by at most one order line.  The checkout never tests
\* isAvailable, so the code violates it.
C1_SellsAtMostOnce ==
    \A i, j \in DOMAIN orderItems :
        i # j => orderItems[i].bookId # orderItems[j].bookId

\* C2: checkouts on one listing are not serialized.  When a checkout answers
\* 201, every cart entry it read whose listing existed at the lookup has an
\* order line under its order, whether or not the listing was available and
\* whether or not another checkout took it; so two buyers' checkouts of one
\* listing both succeed and both get their line.
C2_CheckoutsNotSerialized ==
    \A r \in Reqs :
        Returned201(r) =>
            \A k \in 1..Len(reqs[r].cartItems) :
                reqs[r].cartItems[k].id \in reqs[r].found =>
                    \E i \in LinesOf(reqs[r].orderId) :
                        /\ orderItems[i].bookId = reqs[r].cartItems[k].bookId
                        /\ lineOrigin[i].cartItem = reqs[r].cartItems[k]

\* C2 witness: one buyer's checkout answers 201 with a line for a listing
\* while another buyer's checkout, still in flight, already has its own line
\* for the same listing.
C2_Witness ==
    \E r, q \in Reqs :
        /\ Returned201(r)
        /\ reqs[q].pc \in {"updateBook", "getBook", "clearCart"}
        /\ reqs[q].userId # reqs[r].userId
        /\ \E i \in LinesOf(reqs[r].orderId), j \in LinesOf(reqs[q].orderId) :
               orderItems[i].bookId = orderItems[j].bookId

\* The ids of the listings GET /api/books returns for a query.
Listed(filters) == {book.id : book \in Range(getBooks(filters))}

\* C3 (as claimed): when a checkout returns, every listing it created an
\* order line for is unavailable and is in no result of getBooks.  (A listing
\* deleted meanwhile has no flag; it counts as satisfying the claim.)
C3_UnavailableAtReturn ==
    \A r \in Reqs :
        Returned201(r) =>
            \A i \in LinesOf(reqs[r].orderId) :
                LET L == orderItems[i].bookId
                IN  /\ L \in DOMAIN books => ~books[L].isAvailable
                    /\ \A f \in Filters : L \notin Listed(f)

\* C3 (amended): when a checkout returns, every listing it created an order
\* line for is in no result of getBooks and, if it still exists, is
\* unavailable, unless its owner updated it with isAvailable = true after the
\* checkout's update of it.
C3_UnavailableAtReturnUnlessRelisted ==
    \A r \in Reqs :
        Returned201(r) =>
            \A i \in LinesOf(reqs[r].orderId) :
                LET L == orderItems[i].bookId
                IN  L \notin relisted =>
                        /\ L \in DOMAIN books => ~books[L].isAvailable
                        /\ \A f \in Filters : L \notin Listed(f)

\* C3 witness: a checkout returns with a line for a listing that exists, has
\* not been relisted and is unavailable.
C3_Witness ==
    \E r \in Reqs :
        /\ Returned201(r)
        /\ \E i \in LinesOf(reqs[r].orderId) :
               /\ orderItems[i].bookId \in DOMAIN books
               /\ orderItems[i].bookId \notin relisted
               /\ ~books[orderItems[i].bookId].isAvailable

\* C4: a listing's isAvailable goes from false to true only in a step of
\* PUT /api/books/:id by the listing's seller whose body supplies isAvailable;
\* no cart, checkout or other step sets it back.
C4_OnlyOwnerUpdateRelists ==
    [][\A id \in DOMAIN books :
          (/\ ~books[id].isAvailable
           /\ id \in DOMAIN books'
           /\ books'[id].isAvailable)
          => \E body \in Patches :
                 /\ "isAvailable" \in DOMAIN body
                 /\ PutBooks(books[id].sellerId, id, body)]_vars

\* C4 witness: a listing a checkout has sold and set unavailable is still
\* unavailable after that checkout ended and a later add-to-cart ran.
C4_Witness ==
    \E id \in DOMAIN books :
        /\ Sold(id)
        /\ ~books[id].isAvailable
        /\ id \notin relisted
        /\ \E r \in Reqs : reqs[r].pc = "ended"
        /\ \E c \in DOMAIN cartItems :
               \A i \in DOMAIN lineOrigin : c > lineOrigin[i].cartItem.id

\* C5: a checkout that answers 201 has created, under its one order, exactly
\* one order line for each cart entry whose listing the lookup found and none
\* for the others: N lines minus the vanished-listing skips.
C5_OneLinePerFoundEntry ==
    \A r \in Reqs :
        Returned201(r) =>
            LET req == reqs[r]
                lines == LinesOf(req.orderId)
            IN  /\ req.orderId \in DOMAIN orders
                /\ req.found \cup req.vanished = IdsOf(req.cartItems)
                /\ req.found \cap req.vanished = {}
                /\ {lineOrigin[i].cartItem.id : i \in lines} = req.found
                /\ Cardinality(lines) = Cardinality(req.found)
                /\ Cardinality(lines) =
                       Len(req.cartItems) - Cardinality(req.vanished)
                /\ \A i \in lines :
                       orderItems[i].bookId = lineOrigin[i].cartItem.bookId

\* C5 witness: a checkout of a two-entry cart returns with one line, the
\* other entry's listing having vanished.
C5_Witness ==
    \E r \in Reqs :
        /\ Returned201(r)
        /\ Len(reqs[r].cartItems) = 2
        /\ Cardinality(reqs[r].vanished) = 1
        /\ Cardinality(LinesOf(reqs[r].orderId)) = 1

C7_EmptyCartNoEffect ==
    [][\A r \in Reqs :
          /\ (reqs[r].pc = "idle" /\ reqs'[r].pc # "idle"
                /\ getCartItems(reqs'[r].userId) = <<>>)
             => (/\ reqs'[r].pc = "done"
                 /\ reqs'[r].resp = "400 Cart is empty"
                 /\ reqs'[r].orderId = 0
                 /\ store' = store)
          /\ (reqs[r].resp = "400 Cart is empty" /\ reqs'[r] # reqs[r])
             => (reqs'[r].pc = "ended" /\ store' = store)]_vars

\* C7 witness: a checkout has answered 400 "Cart is empty".
C7_Witness ==
    \E r \in Reqs : reqs[r].pc = "done" /\ reqs[r].resp = "400 Cart is empty"

\* C8: an order line's price is the price its listing had when the checkout
\* looked the listing up, in every later state too: after the listing's price
\* was updated and after the listing was deleted.
C8_PriceCapturedAtLookup ==
    \A i \in DOMAIN orderItems :
        orderItems[i].price = lineOrigin[i].priceAtLookup

\* C8 witness: an order line whose listing now has another price.
C8_Witness ==
    \E i \in DOMAIN orderItems :
        /\ orderItems[i].bookId \in DOMAIN books
        /\ books[orderItems[i].bookId].price # orderItems[i].price

\* C9 (as claimed): no two cart entries share the same (buyerId, bookId).
\* addToCart inserts without looking for an existing entry, so the code
\* violates it.
C9_CartEntriesUnique ==
    \A c, d \in DOMAIN cartItems :
        c # d => \/ cartItems[c].buyerId # cartItems[d].buyerId
                 \/ cartItems[c].bookId # cartItems[d].bookId

\* C10: the buyer of an order line's parent order is the buyer of the cart
\* entry the line was created from.
C10_LineBuyerIsCartBuyer ==
    \A i \in DOMAIN orderItems :
        /\ orderItems[i].orderId \in DOMAIN orders
        /\ orders[orderItems[i].orderId].buyerId = lineOrigin[i].cartItem.buyerId

\* C10 witness: an order line exists while an older cart entry of another
\* buyer, present when the checkout read the cart, is still in the store.
C10_Witness ==
    \E i \in DOMAIN orderItems, c \in DOMAIN cartItems :
        /\ cartItems[c].buyerId # lineOrigin[i].cartItem.buyerId
        /\ c < lineOrigin[i].cartItem.id

\* C11: the total stored on the order a checkout created is the total of the
\* request, rendered by toString; it is not the sum of the order lines'
\* prices nor of the listings' prices.
C11_TotalIsCallerSupplied ==
    \A r \in Reqs :
        reqs[r].orderId # 0 =>
            /\ reqs[r].orderId \in DOMAIN orders
            /\ reqs[r].total # <<>>
            /\ orders[reqs[r].orderId].total = toString(reqs[r].total[1])

\* C11 witness: a checkout returns with order lines, and the stored total is
\* the caller's 7 while the lines' prices add up to something else.
C11_Witness ==
    \E r \in Reqs :
        /\ Returned201(r)
        /\ LinesOf(reqs[r].orderId) # {}
        /\ orders[reqs[r].orderId].total = <<7>>
        /\ \A i \in LinesOf(reqs[r].orderId) : orderItems[i].price > 7

\* C12: a registration whose email already belongs to a user when the handler
\* looks it up answers 400 "User already exists" in that step and changes no
\* store record; and no step changes or removes a user or changes which user
\* getUserByEmail returns for an email that has one, so the first user
\* registered with the email stays the one returned.
C12_DuplicateEmailRejected ==
    [][/\ \A r \in Regs :
             (/\ regs[r].pc = "idle"
              /\ regs'[r].pc # "idle"
              /\ regs'[r].userData # <<>>
              /\ getUserByEmail(regs'[r].userData[1].email) # <<>>)
             => /\ regs'[r].pc = "done"
                /\ regs'[r].resp = "400 User already exists"
                /\ regs'[r].user = <<>>
                /\ store' = store
       /\ \A r \in Regs :
             regs[r].resp = "400 User already exists" => users' = users
       /\ \A id \in DOMAIN users : id \in DOMAIN users' /\ users'[id] = users[id]
       /\ \A email \in Emails :
             getUserByEmail(email) # <<>>
                 => getUserByEmail(email)' = getUserByEmail(email)]_vars

\* C12 witness: a registration answers 400 "User already exists" for the
\* email of a user registered before.
C12_Witness ==
    \E r \in Regs :
        /\ regs[r].pc = "done"
        /\ regs[r].resp = "400 User already exists"
        /\ regs[r].existingUser # <<>>
        /\ getUserByEmail(regs[r].userData[1].email) = regs[r].existingUser

\* C13 (as claimed): no two users have the same email.  Two registrations
\* that both look the email up before either inserts both insert, so the
\* code violates it.
C13_EmailUnique ==
    \A i, j \in DOMAIN users : i # j => users[i].email # users[j].email

\* A header that carries no token, or a token that fails verification.
NoValidToken(h) == Len(h) < 2 \/ h[2].key # JWT_SECRET \/ h[2].expired

\* C14: a step of any authenticated route whose request carries no token or
\* a token that fails verification is the gate's response, 401 without a
\* token and 403 with a bad one, and changes no store record and starts no
\* checkout; and every step that leaves the gate's response leaves the store
\* as it was.
C14_GateRejects ==
    [][/\ \A h \in Headers :
             (/\ NoValidToken(h)
              /\ \/ \E body \in BookInputs : HttpPostBooks(h, body)
                 \/ \E id \in BookIds, body \in Patches : HttpPutBooks(h, id, body)
                 \/ \E id \in BookIds : HttpDeleteBooks(h, id)
                 \/ HttpGetSellerBooks(h)
                 \/ HttpGetCart(h)
                 \/ \E bookId \in BookIds : HttpPostCart(h, bookId)
                 \/ \E bookId \in BookIds : HttpDeleteCart(h, bookId)
                 \/ \E r \in Reqs, total \in Totals : HttpPostOrders(h, r, total)
                 \/ HttpGetOrders(h)
                 \/ \E otherUserId \in Users : HttpGetMessages(h, otherUserId)
                 \/ \E body \in MessageInputs : HttpPostMessages(h, body))
             => /\ http'.route = "authenticateToken"
                /\ http'.status = IF Len(h) < 2 THEN 401 ELSE 403
                /\ http'.userId = 0
                /\ store' = store
                /\ reqs' = reqs
       /\ (http'.route = "authenticateToken" /\ http' # http)
             => store' = store /\ reqs' = reqs]_vars

\* C14 witness: the gate answers 403 while the store holds a listing, a cart
\* entry, an order with a line and a message.
C14_Witness ==
    /\ http.route = "authenticateToken"
    /\ http.status = 403
    /\ books # <<>>
    /\ cartItems # <<>>
    /\ orderItems # <<>>
    /\ messages # <<>>

\* C15: a step of POST /api/books by a caller that is no seller answers 403
\* and changes no store record; by a seller it answers 201 and adds one
\* listing whose sellerId is the caller.  A listing appears only in such a
\* step of a seller, and no step changes a listing's sellerId, so every
\* listing's sellerId is the caller that created it.
C15_OnlySellersCreate ==
    [][/\ \A u \in Users, body \in BookInputs :
             PostBooks(u, body) =>
                 IF Role[u] # "seller"
                 THEN /\ http'.route = "POST /api/books"
                      /\ http'.status = 403
                      /\ store' = store
                 ELSE /\ http'.status = 201
                      /\ http'.param \notin DOMAIN books
                      /\ DOMAIN books' = DOMAIN books \cup {http'.param}
                      /\ books'[http'.param].sellerId = u
                      /\ \A id \in DOMAIN books : books'[id] = books[id]
       /\ \A id \in DOMAIN books' \ DOMAIN books :
             /\ Role[books'[id].sellerId] = "seller"
             /\ \E body \in BookInputs : PostBooks(books'[id].sellerId, body)
       /\ \A id \in DOMAIN books \cap DOMAIN books' :
             books'[id].sellerId = books[id].sellerId]_vars

\* C15 witness: a buyer's create-listing request is answered 403 while a
\* seller's listing is in the store.
C15_Witness ==
    /\ http.route = "POST /api/books"
    /\ http.status = 403
    /\ Role[http.userId] = "buyer"
    /\ books # <<>>

\* C16: a step of PUT or DELETE /api/books/:id for an existing listing by a
\* caller that is not its sellerId answers 403 and changes no store record.
\* A listing changes or disappears only in a step of one of these routes by
\* its sellerId, and no step changes a listing's sellerId, whatever the body.
C16_OnlyOwnerEditsOrDeletes ==
    [][/\ \A u \in Users, id \in DOMAIN books :
             (/\ books[id].sellerId # u
              /\ \/ \E body \in Patches : PutBooks(u, id, body)
                 \/ DeleteBooks(u, id))
             => /\ http'.status = 403
                /\ http'.userId = u
                /\ http'.param = id
                /\ store' = store
       /\ \A id \in DOMAIN books :
             (id \notin DOMAIN books' \/ books'[id] # books[id])
             => \/ \E body \in Patches : PutBooks(books[id].sellerId, id, body)
                \/ DeleteBooks(books[id].sellerId, id)
       /\ \A id \in DOMAIN books \cap DOMAIN books' :
             books'[id].sellerId = books[id].sellerId]_vars

\* C16 witness: an update of a listing by a caller who is not its seller is
\* answered 403, with the listing and a cart entry in the store.
C16_Witness ==
    /\ http.route = "PUT /api/books/:id"
    /\ http.status = 403
    /\ http.param \in DOMAIN books
    /\ books[http.param].sellerId # http.userId
    /\ cartItems # <<>>

\* C17 (as claimed): when DELETE /api/cart/:bookId answers, it answers 204
\* and the caller's cart has no entry for the listing.  MemStorage's
\* removeFromCart deletes only the first matching entry and addToCart lets a
\* buyer hold several entries for one listing, so the code violates it.
C17_RemoveLeavesNoEntry ==
    http.route = "DELETE /api/cart/:bookId" =>
        /\ http.status = 204
        /\ \A c \in DOMAIN cartItems :
               ~(cartItems[c].buyerId = http.userId /\ cartItems[c].bookId = http.param)

\* C18: a checkout whose lookup did not find the listing of a cart entry
\* goes on: it creates no order line from that entry, it answers nothing but
\* 201, and when it answers, its order exists, every entry whose listing it
\* found has its line, and the buyer's cart is empty.
C18_VanishedListingSkipped ==
    \A r \in Reqs :
        reqs[r].vanished # {} =>
            /\ reqs[r].pc \in {"getBook", "createOrderItem", "updateBook",
                              "clearCart", "done"}
            /\ \A i \in LinesOf(reqs[r].orderId) :
                   lineOrigin[i].cartItem.id \notin reqs[r].vanished
            /\ reqs[r].pc = "done" =>
                   /\ reqs[r].resp = "201"
                   /\ reqs[r].orderId \in DOMAIN orders
                   /\ reqs[r].found \cup reqs[r].vanished = IdsOf(reqs[r].cartItems)
                   /\ \A c \in reqs[r].found :
                          \E i \in LinesOf(reqs[r].orderId) : lineOrigin[i].cartItem.id = c
                   /\ \A c \in DOMAIN cartItems :
                          cartItems[c].buyerId # reqs[r].userId

\* C18 witness: a checkout answers 201 with a line from its first cart entry
\* after it skipped its second, whose listing had been created, carted and
\* then deleted.
C18_Witness ==
    \E r \in Reqs :
        /\ Returned201(r)
        /\ Len(reqs[r].cartItems) = 2
        /\ reqs[r].cartItems[2].id \in reqs[r].vanished
        /\ reqs[r].cartItems[2].bookId \notin DOMAIN books
        /\ reqs[r].cartItems[2].bookId < currentBookId
        /\ \E i \in LinesOf(reqs[r].orderId) :
               lineOrigin[i].cartItem = reqs[r].cartItems[1]

\* C19: the step in which a store call of a checkout fails answers
\* 400 "Failed to create order" and changes no store record: the order, the
\* lines created so far and the flags set so far stay, and the cart is not
\* cleared.  No step at all removes or changes an order or an order line.
C19_NoRollback ==
    [][/\ \A r \in Reqs :
             (/\ reqs[r].pc \notin {"idle", "done", "ended"}
              /\ reqs'[r].pc = "done"
              /\ reqs'[r].resp = "400 Failed to create order")
             => /\ store' = store
                /\ reqs[r].orderId # 0 => reqs[r].orderId \in DOMAIN orders'
                /\ \A i \in LinesOf(reqs[r].orderId) :
                       i \in DOMAIN orderItems' /\ orderItems'[i] = orderItems[i]
                /\ getCartItems(reqs[r].userId)' = getCartItems(reqs[r].userId)
       /\ \A o \in DOMAIN orders : o \in DOMAIN orders' /\ orders'[o] = orders[o]
       /\ \A i \in DOMAIN orderItems :
             i \in DOMAIN orderItems' /\ orderItems'[i] = orderItems[i]]_vars

\* C19 witness: a checkout answers 400 "Failed to create order" after its
\* clearCart failed: its order and a line are in the store, the line's
\* listing is unavailable, and every cart entry it read is still there.
C19_Witness ==
    \E r \in Reqs :
        /\ reqs[r].pc = "done"
        /\ reqs[r].resp = "400 Failed to create order"
        /\ reqs[r].orderId \in DOMAIN orders
        /\ reqs[r].idx = Len(reqs[r].cartItems)
        /\ \E i \in LinesOf(reqs[r].orderId) :
               /\ orderItems[i].bookId \in DOMAIN books
               /\ ~books[orderItems[i].bookId].isAvailable
        /\ \A k \in 1..Len(reqs[r].cartItems) :
               /\ reqs[r].cartItems[k].id \in DOMAIN cartItems
               /\ cartItems[reqs[r].cartItems[k].id] = reqs[r].cartItems[k]

\* C20: for all users A and B the thread of (A, B) and the thread of (B, A)
\* are the same list; it holds exactly the messages A sent to B or B sent to
\* A, each once, in ascending order of createdAt; and GET /api/messages/:userId
\* answers that list whichever of the two is the caller.
C20_ThreadSymmetricChronological ==
    /\ \A a, b \in Users :
           LET ab == getMessagesBetweenUsers(a, b)
               ba == getMessagesBetweenUsers(b, a)
               between == {i \in DOMAIN messages :
                              \/ messages[i].senderId = a /\ messages[i].receiverId = b
                              \/ messages[i].senderId = b /\ messages[i].receiverId = a}
           IN  /\ ab = ba
               /\ Range(ab) = {messages[i] : i \in between}
               /\ Len(ab) = Cardinality(between)
               /\ \A i, j \in 1..Len(ab) :
                      i < j => ab[i].createdAt <= ab[j].createdAt
    /\ (http.route = "GET /api/messages/:userId" /\ http.status = 200)
           => http.body = getMessagesBetweenUsers(http.param, http.userId)

\* C20 witness: GET /api/messages/:userId answers a thread of two messages,
\* one in each direction, in which the message stored second comes first
\* because the clock had been set back when it was created.
C20_Witness ==
    /\ http.route = "GET /api/messages/:userId"
    /\ Len(http.body) = 2
    /\ http.body[1].senderId = http.body[2].receiverId
    /\ http.body[1].receiverId = http.body[2].senderId
    /\ http.body[1].senderId # http.body[1].receiverId
    /\ http.body[1].id > http.body[2].id
    /\ http.body[1].createdAt < http.body[2].createdAt

C22_PartialUpdate ==
    [][\A id \in ListingIds, updateData \in {insertBookSchema(b) : b \in Patches} :
          StorageUpdateBook(id, updateData) =>
              /\ IF id \in DOMAIN books
                 THEN /\ DOMAIN books' = DOMAIN books
                      /\ DOMAIN books'[id] = DOMAIN books[id]
                      /\ \A f \in DOMAIN updateData : books'[id][f] = updateData[f]
                      /\ \A f \in DOMAIN books[id] \ DOMAIN updateData :
                             books'[id][f] = books[id][f]
                      /\ books'[id].id = id
                      /\ \A other \in DOMAIN books \ {id} : books'[other] = books[other]
                      /\ returned'.mem = Returns(books'[id])
                 ELSE /\ books' = books
                      /\ returned'.mem = Undefined
              /\ UNCHANGED <<users, orders, orderItems, messages, cartItems,
                             currentUserId, currentBookId, currentOrderId,
                             currentOrderItemId, currentMessageId, currentCartItemId>>
              /\ IF id \in DOMAIN db.books
                 THEN /\ DOMAIN db'.books = DOMAIN db.books
                      /\ \A f \in DOMAIN updateData : db'.books[id][f] = updateData[f]
                      /\ \A f \in DOMAIN db.books[id] \ DOMAIN updateData :
                             db'.books[id][f] = db.books[id][f]
                      /\ \A other \in DOMAIN db.books \ {id} :
                             db'.books[other] = db.books[other]
                      /\ returned'.db = Returns(db'.books[id])
                 ELSE /\ db'.books = db.books
                      /\ returned'.db = Undefined
              /\ db'.cartItems = db.cartItems
              /\ db'.booksIdSeq = db.booksIdSeq
              /\ db'.cartItemsIdSeq = db.cartItemsIdSeq]_vars

\* C22 witness: updateBook has just returned a listing whose price it changed
\* from 10 to 20, beside another listing that still has its price and with a
\* cart entry in the store.
C22_Witness ==
    \E id, other \in DOMAIN books :
        /\ id # other
        /\ returned.mem = Returns(books[id])
        /\ books[id].title = <<"D", "u">>
        /\ books[id].price = 20
        /\ books[other].title = <<"D", "u">>
        /\ books[other].price = 10
        /\ cartItems # <<>>

\* A step hands out ids of one kind of record from its counter: every record
\* is stored under its id, below the counter; the counter never goes back; a
\* record that appears has the counter's value as id and the counter moves
\* past it; and the id of a record that disappears stays below the counter.
AssignsNewIds(map, mapAfter, next, nextAfter) ==
    /\ \A id \in DOMAIN map : id < next /\ map[id].id = id
    /\ \A id \in DOMAIN mapAfter : id < nextAfter /\ mapAfter[id].id = id
    /\ nextAfter >= next
    /\ \A id \in DOMAIN mapAfter \ DOMAIN map :
           /\ id = next
           /\ nextAfter = next + 1
           /\ \A old \in DOMAIN map : old < id
    /\ \A id \in DOMAIN map \ DOMAIN mapAfter : id < nextAfter

\* C23: every insert assigns a new id.  For users, listings, orders, order
\* lines, messages and cart entries alike, the ids in the store are distinct
\* (each record is stored under its own id), each new record gets an id above
\* every id handed out before it, and no later insert gets the id of a
\* deleted record.
C23_InsertAssignsNewId ==
    [][/\ AssignsNewIds(users, users', currentUserId, currentUserId')
       /\ AssignsNewIds(books, books', currentBookId, currentBookId')
       /\ AssignsNewIds(orders, orders', currentOrderId, currentOrderId')
       /\ AssignsNewIds(orderItems, orderItems', currentOrderItemId, currentOrderItemId')
       /\ AssignsNewIds(messages, messages', currentMessageId, currentMessageId')
       /\ AssignsNewIds(cartItems, cartItems', currentCartItemId, currentCartItemId')]_vars

\* C23 witness: two users, orders, order lines and messages are stored, and
\* the second listing and the second cart entry are, after the first of each
\* was deleted.
C23_Witness ==
    /\ DOMAIN users = {1, 2}
    /\ DOMAIN orders = {1, 2}
    /\ DOMAIN orderItems = {1, 2}
    /\ DOMAIN messages = {1, 2}
    /\ DOMAIN books = {2}
    /\ DOMAIN cartItems = {2}

\* C24 (as claimed): each cart entry is converted into at most one order
\* line, that is, no two order lines were created from the same cart entry.
\* Two checkouts of one buyer that both read the cart before either clears
\* it each create a line from every entry, so the code violates it.
C24_EntryBecomesOneLine ==
    \A i, j \in DOMAIN orderItems :
        i # j => lineOrigin[i].cartItem.id # lineOrigin[j].cartItem.id

\* C25 (as claimed): every cart entry that the clearCart step of a checkout
\* removes is one of the entries the checkout read at its start.  clearCart
\* removes whatever the buyer's cart holds when it runs, so an entry the buyer
\* added after the checkout read the cart is removed unbought: the code
\* violates it.
C25_ClearsOnlyWhatItRead ==
    [][\A r \in Reqs :
          OrdersClearCart(r) =>
              \A c \in DOMAIN cartItems \ DOMAIN cartItems' :
                  c \in IdsOf(reqs[r].cartItems)]_vars

\* C26 (as claimed): the MemStorage and the DatabaseStorage are
\* interchangeable: after every sequence of calls of the listing and cart
\* methods on both, from the same initial state, the last call returned the
\* same from both and both hold the same listings and cart entries.  They
\* differ on createBook with isAvailable false in the input, on removeFromCart
\* with two entries of one buyer for one listing, and where the database
\* enforces its foreign keys or chooses the order of a select, so the code
\* violates it.
C26_StoresInterchangeable ==
    /\ returned.mem = returned.db
    /\ books = db.books
    /\ cartItems = db.cartItems

\* C27: the order of a checkout's writes.  The step that sets a listing
\* unavailable for a checkout finds an order line for that listing, made from
\* the same cart entry, under the checkout's order; the step that creates an
\* order line finds the checkout's order in the store; and in every state
\* every order line's orderId is the id of an order in the store.
C27_OrderThenLineThenFlag ==
    [][/\ \A r \in Reqs :
             OrdersUpdateBook(r) =>
                 \E i \in LinesOf(reqs[r].orderId) :
                     /\ reqs[r].orderId \in DOMAIN orders
                     /\ orderItems[i].bookId = reqs[r].cartItems[reqs[r].idx].bookId
                     /\ lineOrigin[i].cartItem = reqs[r].cartItems[reqs[r].idx]
       /\ \A r \in Reqs :
             OrdersCreateOrderItem(r) =>
                 /\ reqs[r].orderId \in DOMAIN orders
                 /\ orders[reqs[r].orderId].buyerId = reqs[r].userId
       /\ \A i \in DOMAIN orderItems' : orderItems'[i].orderId \in DOMAIN orders'
       /\ \A id \in DOMAIN books \cap DOMAIN books' :
             (books[id].isAvailable /\ ~books'[id].isAvailable)
             => \/ \E body \in Patches : PutBooks(books[id].sellerId, id, body)
                \/ \E r \in Reqs :
                       /\ OrdersUpdateBook(r)
                       /\ \E i \in LinesOf(reqs[r].orderId) : orderItems[i].bookId = id]_vars

\* C27 witness: a checkout is between its createOrderItem and its updateBook:
\* its order and the line for the current cart entry are in the store and the
\* listing is still available.
C27_Witness ==
    \E r \in Reqs :
        /\ reqs[r].pc = "updateBook"
        /\ reqs[r].orderId \in DOMAIN orders
        /\ \E i \in LinesOf(reqs[r].orderId) :
               /\ lineOrigin[i].cartItem = reqs[r].cartItems[reqs[r].idx]
               /\ orderItems[i].bookId \in DOMAIN books
               /\ books[orderItems[i].bookId].isAvailable

\* The cart entries of the buyers other than u.
CartsOfOthers(map, u) == [c \in {d \in DOMAIN map : map[d].buyerId # u} |-> map[c]]

\* C28: cart isolation.  A step of POST /api/cart, of DELETE /api/cart/:bookId
\* or of a checkout by buyer A leaves the cart entries of every other buyer as
\* they were, and the entries it creates have buyerId A; and a cart entry
\* appears, changes or disappears only in a step of one of these three by the
\* buyer the entry belongs to.
C28_CartIsolation ==
    [][/\ \A u \in Users :
             (\/ \E bookId \in BookIds : PostCart(u, bookId)
              \/ \E bookId \in BookIds : DeleteCart(u, bookId)
              \/ \E r \in Reqs :
                     /\ reqs[r].userId = u
                     /\ \/ OrdersCreateOrder(r) \/ OrdersGetBook(r)
                        \/ OrdersCreateOrderItem(r) \/ OrdersUpdateBook(r)
                        \/ OrdersClearCart(r) \/ OrdersEnd(r)
              \/ \E r \in Reqs, total \in Totals : OrdersGetCartItems(r, u, total))
             => /\ CartsOfOthers(cartItems', u) = CartsOfOthers(cartItems, u)
                /\ \A c \in DOMAIN cartItems' \ DOMAIN cartItems :
                       cartItems'[c].buyerId = u
       /\ \A c \in DOMAIN cartItems \cup DOMAIN cartItems' :
             (\/ c \notin DOMAIN cartItems
              \/ c \notin DOMAIN cartItems'
              \/ cartItems'[c] # cartItems[c])
             => LET owner == IF c \in DOMAIN cartItems THEN cartItems[c].buyerId
                             ELSE cartItems'[c].buyerId
                IN  \/ \E bookId \in BookIds : PostCart(owner, bookId)
                    \/ \E bookId \in BookIds : DeleteCart(owner, bookId)
                    \/ \E r \in Reqs : reqs[r].userId = owner /\ OrdersClearCart(r)]_vars

\* C28 witness: a buyer's checkout answers 201 with an order line for a
\* listing while another buyer's cart entry for the same listing, added
\* before the checkout read the cart, is still in the store.
C28_Witness ==
    \E r \in Reqs, c \in DOMAIN cartItems :
        /\ Returned201(r)
        /\ cartItems[c].buyerId # reqs[r].userId
        /\ \E i \in LinesOf(reqs[r].orderId) :
               /\ orderItems[i].bookId = cartItems[c].bookId
               /\ c < lineOrigin[i].cartItem.id

\* C29: a message appears only in a step of POST /api/messages whose request
\* passed the gate, and its senderId is the userId of that request's token,
\* whatever senderId the body names; and no step changes or removes a message
\* that is in the store.
C29_SenderIsCaller ==
    [][/\ \A h \in Headers, body \in MessageInputs :
             HttpPostMessages(h, body) =>
                 \A id \in DOMAIN messages' \ DOMAIN messages :
                     /\ ~NoValidToken(h)
                     /\ messages'[id].senderId = h[2].payload.userId
                     /\ messages'[id].senderId = http'.userId
       /\ \A id \in DOMAIN messages' \ DOMAIN messages :
             \E h \in Headers, body \in MessageInputs : HttpPostMessages(h, body)
       /\ \A id \in DOMAIN messages :
             id \in DOMAIN messages' /\ messages'[id] = messages[id]]_vars

\* C29 witness: POST /api/messages answers 201 to a caller other than user 2
\* for the body that names user 2 as sender; the stored message has the caller
\* as sender, and an earlier message is in the store.
C29_Witness ==
    /\ http.route = "POST /api/messages"
    /\ http.status = 201
    /\ http.userId # 2
    /\ http.body[1].content = <<"f">>
    /\ http.body[1].id = 2
    /\ messages[2] = http.body[1]
    /\ messages[2].senderId = http.userId
    /\ 1 \in DOMAIN messages

\* C30 (as claimed): every order line's bookId and every cart entry's bookId
\* is the id of a listing in the store.  deleteBook removes a listing that
\* carts and order lines refer to, and addToCart accepts the id of a listing
\* that does not exist, so the code violates it.
C30_BookIdsReferToListings ==
    /\ \A i \in DOMAIN orderItems : orderItems[i].bookId \in DOMAIN books
    /\ \A c \in DOMAIN cartItems : cartItems[c].bookId \in DOMAIN books
====
